---- MODULE Spec2Model ----
(***************************************************************************)
(* Model of the ingestion and anomaly pipeline of the IoT edge backend:    *)
(* the two detectors (ZScoreEngine, MedianDeviationEngine), the HTTP       *)
(* ingest route and the MQTT bridge.                                       *)
(*                                                                         *)
(* Numbers.  The code computes in IEEE doubles; the model computes in      *)
(* exact arithmetic.  A measurement is an integer number of hundredths     *)
(* (22.0 is 2200, 0.02 is 2), a z-score is kept as the fraction z^2 =      *)
(* num/den and a median-deviation score as the fraction num/den of the     *)
(* mean normalised distance.                                               *)
(***************************************************************************)
EXTENDS Integers, Sequences, FiniteSets, TLC

\* The number 1.0 in hundredths: the fallback "|| 1" of the detectors.
One == 100

Abs(x) == IF x < 0 THEN -x ELSE x

RECURSIVE Gcd(_, _)
Gcd(a, b) == IF b = 0 THEN a ELSE Gcd(b, a % b)

RECURSIVE SumSeq(_)
SumSeq(s) == IF s = <<>> THEN 0 ELSE Head(s) + SumSeq(Tail(s))

RECURSIVE GcdSeq(_)
GcdSeq(s) == IF s = <<>> THEN 0 ELSE Gcd(Abs(Head(s)), GcdSeq(Tail(s)))

\* The fraction n/d (d > 0), in lowest terms.
Frac(n, d) ==
    LET g == Gcd(Abs(n), d)
    IN  [num |-> n \div g, den |-> d \div g]
FracAdd(a, b) == Frac(a.num * b.den + b.num * a.den, a.den * b.den)
FracLess(a, b) == a.num * b.den < b.num * a.den
FracMax(a, b) == IF FracLess(a, b) THEN b ELSE a

\* The four measurements of a MetricPoint, in the order the code lists them:
\* temperature_c, vibration_g, humidity_pct, voltage_v.
Metrics == 1..4

(***************************************************************************)
(* ZScoreEngine                                                            *)
(***************************************************************************)

\* new ZScoreEngine(windowSize, 3.0): the threshold.
ZThreshold == 3

\* The DeviceStats of a device that has none yet: four empty windows.
\* (mean and std are recomputed from the window on every update, so the
\* window is the whole state.)
EmptyStats == [m \in Metrics |-> <<>>]

\* A full window that keeps its entries and drops the new value.
PushWindowDropNewest(points, value, windowSize) ==
    IF Len(points) >= windowSize THEN points ELSE Append(points, value)

\* updateStats, first half: push the value, shift when the window is full.
PushWindow(points, value, windowSize) ==
    LET pushed == Append(points, value)
    IN  IF Len(pushed) > windowSize THEN Tail(pushed) ELSE pushed

\* A sum that starts at the second element of the window.
MeanTimesNSkipFirst(points) == SumSeq(Tail(points))

\* n * mean of the window: stat.mean = sum / n, kept as the numerator sum.
MeanTimesN(points) == SumSeq(points)

\* updateStats, second half, and calculateZScore: the square of
\* |value - mean| / std for the window `points` (after the push), as a
\* fraction.  With n = Len(points), S = n * mean and d_i = n*p_i - S:
\*   n = 1            std = 1, z = |value - mean| / 1
\*   variance = 0     std = sqrt(0) || 1 = 1, z = |value - mean| / 1
\*   otherwise        z^2 = (n*value - S)^2 * (n-1) / sum_i d_i^2
\* The d_i are divided by their common divisor first, which leaves the
\* quotient unchanged and keeps the integers small.
ZSquared(points, value) ==
    LET n  == Len(points)
        S  == MeanTimesN(points)
        dx == n * value - S
        ds == [i \in 1..n |-> n * points[i] - S]
        g0 == Gcd(Abs(dx), GcdSeq(ds))
        g  == IF g0 = 0 THEN 1 ELSE g0
        ss == SumSeq([i \in 1..n |-> (ds[i] \div g) * (ds[i] \div g)])
        h0 == Gcd(Abs(dx), n * One)
        h  == IF h0 = 0 THEN 1 ELSE h0
        a  == dx \div h
        b  == (n * One) \div h
    IN  IF n = 1 \/ ss = 0
        THEN Frac(a * a, b * b)
        ELSE Frac((dx \div g) * (dx \div g) * (n - 1), ss)

\* scoreBatch, for one point: update the four windows, then score the point
\* against the updated statistics; the score is the largest of the four.
ZPushPoint(stats, point, windowSize) ==
    [m \in Metrics |-> PushWindow(stats[m], point[m], windowSize)]

ZPointScore(stats, point) ==
    LET z(m) == ZSquared(stats[m], point[m])
    IN  FracMax(FracMax(z(1), z(2)), FracMax(z(3), z(4)))

ZIsAnomaly(scoreSq) ==
    scoreSq.num > ZThreshold * ZThreshold * scoreSq.den

\* ZScoreEngine.scoreBatch: the device's statistics after the batch, and one
\* result per point, in order.
RECURSIVE ZScoreBatch(_, _, _, _)
ZScoreBatch(stats, points, windowSize, idx) ==
    IF points = <<>>
    THEN [stats |-> stats, results |-> <<>>]
    ELSE LET st   == ZPushPoint(stats, Head(points), windowSize)
             sc   == ZPointScore(st, Head(points))
             rest == ZScoreBatch(st, Tail(points), windowSize, idx + 1)
         IN  [stats   |-> rest.stats,
              results |-> <<[pointIndex |-> idx, score |-> sc,
                             isAnomaly |-> ZIsAnomaly(sc)]>> \o rest.results]

(***************************************************************************)
(* MedianDeviationEngine (the same computation as IsolationForestEngine)   *)
(***************************************************************************)

SortInts(s) == SortSeq(s, LAMBDA x, y : x < y)

\* values[Math.floor(values.length / 2)] of the sorted values.
UpperMedian(values) == SortInts(values)[(Len(values) \div 2) + 1]

\* deviations[Math.floor(deviations.length / 2)] || 1
MadOf(values) ==
    LET median == UpperMedian(values)
        mad    == UpperMedian([i \in 1..Len(values) |-> Abs(values[i] - median)])
    IN  IF mad = 0 THEN One ELSE mad

Column(features, m) == [i \in 1..Len(features) |-> features[i][m]]

\* MedianDeviationModel.score: for every point -totalDistance / nFeatures,
\* where totalDistance = sum_m |point[m] - medians[m]| / mads[m].
ModelScore(features) ==
    IF features = <<>> THEN <<>>
    ELSE LET medians == [m \in Metrics |-> UpperMedian(Column(features, m))]
             mads    == [m \in Metrics |-> MadOf(Column(features, m))]
             dist(p, m) == Frac(Abs(p[m] - medians[m]), mads[m])
             total(p)   == FracAdd(FracAdd(dist(p, 1), dist(p, 2)),
                                   FracAdd(dist(p, 3), dist(p, 4)))
         IN  [i \in 1..Len(features) |->
                Frac(-total(features[i]).num, 4 * total(features[i]).den)]

\* devicePoints.push(...points); slice(-windowSize) when longer.
MDAppend(window, points, windowSize) ==
    LET all == window \o points
    IN  IF Len(all) > windowSize
        THEN SubSeq(all, Len(all) - windowSize + 1, Len(all))
        ELSE all

\* sortedScores[Math.floor(length * (100 - percentile) / 100)] || 0
MDThreshold(allScores, thresholdPercentile) ==
    LET sortedScores   == SortSeq(allScores, FracLess)
        thresholdIndex == (Len(sortedScores) * (100 - thresholdPercentile)) \div 100
    IN  IF thresholdIndex + 1 \in 1..Len(sortedScores)
        THEN sortedScores[thresholdIndex + 1]
        ELSE Frac(0, 1)

\* The score reported for a new point: the batch's own scores, from
\* model.score(newFeatures).
MDNewScores(devicePoints, points) == ModelScore(points)

\* The guard taken as "the window is empty".
TooFewPointsOnlyWhenEmpty(devicePoints) == Len(devicePoints) < 1

\* if (devicePoints.length < 2): need at least 2 points.
TooFewPoints(devicePoints) == Len(devicePoints) < 2

\* MedianDeviationEngine.scoreBatch: the device's window after the batch, and
\* one result per point, in order (pointIndex counts from 0).
MDScoreBatch(window, points, windowSize, thresholdPercentile) ==
    LET devicePoints == MDAppend(window, points, windowSize)
    IN  IF TooFewPoints(devicePoints)
        THEN [window  |-> devicePoints,
              results |-> [i \in 1..Len(points) |->
                             [pointIndex |-> i - 1, score |-> Frac(0, 1),
                              isAnomaly |-> FALSE]]]
        ELSE LET threshold == MDThreshold(ModelScore(devicePoints), thresholdPercentile)
                 newScores == MDNewScores(devicePoints, points)
             IN  [window  |-> devicePoints,
                  results |-> [i \in 1..Len(points) |->
                                 [pointIndex |-> i - 1,
                                  score      |-> Frac(Abs(newScores[i].num), newScores[i].den),
                                  isAnomaly  |-> FracLess(newScores[i], threshold)]]]

(***************************************************************************)
(* The detectors as state machines: one engine object, scoreBatch calls    *)
(* with inputs drawn from small sets.                                      *)
(***************************************************************************)

VARIABLES
    zWindowSize,   \* ZScoreEngine.windowSize
    zStats,        \* ZScoreEngine.stats: device -> DeviceStats
    zLog,          \* the scoreBatch calls made so far: device, points, results
    mdWindowSize,  \* MedianDeviationEngine.windowSize
    mdPercentile,  \* MedianDeviationEngine.thresholdPercentile
    mdRecent,      \* MedianDeviationEngine.recentPoints: device -> window
    mdLog          \* the scoreBatch calls made so far

zvars  == <<zWindowSize, zStats, zLog>>
mdvars == <<mdWindowSize, mdPercentile, mdRecent, mdLog>>

\* Bounds of the two detector machines.
MaxZCalls  == 3
MaxMDCalls == 2

EngineDevices == {"test-device", "other-device"}

\* new ZScoreEngine(10, 3.0) and Array(10) of the z-score test.
TestWindow == 10
TestTrain  == 10
\* new MedianDeviationEngine(20, 95) and Array(15) of the median-deviation test.
MDTestWindow     == 20
MDTestPercentile == 95
MDTestTrain      == 15

\* The points of the tests, in hundredths.
NormalPoint    == <<2200, 2, 4500, 490>>
SpikePoint     == <<3500, 2, 4500, 490>>
NormalPointB   == <<2300, 2, 4600, 490>>
AnomalousPoint == <<4000, 100, 9000, 200>>

Copies(k, p) == [i \in 1..k |-> p]

\* k points: p, and q last.
Mixed(k, p, q) == [i \in 1..k |-> IF i < k THEN p ELSE q]

ZWindowSizes == {1, 2, TestWindow, TestWindow + 1}
ZBatches     == {Copies(k, p) : k \in {1, 2, TestTrain},
                                p \in {NormalPoint, SpikePoint}}

ZInit ==
    /\ zWindowSize \in ZWindowSizes
    /\ zStats = [d \in EngineDevices |-> EmptyStats]
    /\ zLog = <<>>

ZIdle ==
    /\ zWindowSize = 0
    /\ zStats = [d \in EngineDevices |-> EmptyStats]
    /\ zLog = <<>>

\* One entry that every device reads and writes.
SharedKey(deviceId) == "test-device"

\* this.stats.get(deviceId) / this.recentPoints.get(deviceId): the Map key.
StatsKey(deviceId) == deviceId

\* await engine.scoreBatch(deviceId, points)
ZScoreBatchOn(batches) ==
    /\ Len(zLog) < MaxZCalls
    /\ \E d \in EngineDevices, points \in batches :
         LET r == ZScoreBatch(zStats[StatsKey(d)], points, zWindowSize, 0)
         IN  /\ zStats' = [zStats EXCEPT ![StatsKey(d)] = r.stats]
             /\ zLog' = Append(zLog, [dev |-> d, points |-> points,
                                      results |-> r.results])
    /\ UNCHANGED zWindowSize

ZScoreBatchCall == ZScoreBatchOn(ZBatches)

MDWindowSizes == {1, 2, MDTestWindow}
MDBatches     == {Mixed(k, p, q) : k \in {0, 1, MDTestTrain},
                                   p \in {NormalPoint, NormalPointB},
                                   q \in {NormalPoint, NormalPointB, AnomalousPoint}}

MDInit ==
    /\ mdWindowSize \in MDWindowSizes
    /\ mdPercentile = MDTestPercentile
    /\ mdRecent = [d \in EngineDevices |-> <<>>]
    /\ mdLog = <<>>

MDIdle ==
    /\ mdWindowSize = 0
    /\ mdPercentile = 0
    /\ mdRecent = [d \in EngineDevices |-> <<>>]
    /\ mdLog = <<>>

\* await engine.scoreBatch(deviceId, points)
MDScoreBatchOn(batches) ==
    /\ Len(mdLog) < MaxMDCalls
    /\ \E d \in EngineDevices, points \in batches :
         LET r == MDScoreBatch(mdRecent[StatsKey(d)], points, mdWindowSize, mdPercentile)
         IN  /\ mdRecent' = [mdRecent EXCEPT ![StatsKey(d)] = r.window]
             /\ mdLog' = Append(mdLog, [dev |-> d, points |-> points,
                                        before |-> mdRecent[StatsKey(d)],
                                        results |-> r.results])
    /\ UNCHANGED <<mdWindowSize, mdPercentile>>

MDScoreBatchCall == MDScoreBatchOn(MDBatches)

(***************************************************************************)
(* The pipeline: POST /api/ingest (routes/ingest.ts) and the MQTT bridge   *)
(* (mqtt/bridge.ts) over one store, one event stream and two engine        *)
(* objects (ingest.ts: anomalyEngine; bridge.ts: zScoreEngine), both made  *)
(* by createAnomalyEngine().                                               *)
(*                                                                         *)
(* A handler runs from one await to the next without interruption; every   *)
(* action below is such a run, started by the completion of the awaited    *)
(* call.  `await engine.scoreBatch(...)` awaits a function that does no    *)
(* I/O, so the run goes on through it.                                     *)
(***************************************************************************)

VARIABLES
    cfg,            \* the environment: ANOMALY_ENGINE, PY_ML_ENABLE, ALLOW_AUTO_DEVICE
    handlers,       \* the requests and messages received so far, in arrival order
    nextId,         \* number of points received so far (the arrival order)
    devices,        \* store: the Device rows (ids)
    metrics,        \* store: the Metric rows (point ids)
    anomalies,      \* store: the Anomaly rows, in insert order
    events,         \* the events handed to Socket.IO, in emit order
    deviceBuffers,  \* bridge.ts deviceBuffers: device -> BufferItem[]
    httpEngine,     \* ingest.ts anomalyEngine: device -> window
    mqttEngine,     \* bridge.ts zScoreEngine: device -> window
    seen,           \* per edge and device, the point ids in the order the engine got them
    scoredBy,       \* point id -> the scorers that returned a result for it, in order
    fallbacks       \* the batches scored after an external-scorer failure

pvars == <<cfg, handlers, nextId, devices, metrics, anomalies, events,
           deviceBuffers, httpEngine, mqttEngine, seen, scoredBy, fallbacks>>

\* Bounds of the pipeline machine.
MaxHandlers == 3
\* MQTT_BATCH_SIZE (default 64), scaled down.
BATCH_SIZE == 2

\* parseInt(process.env.ANOMALY_WINDOW_SIZE || '512') and
\* parseInt(process.env.ANOMALY_THRESHOLD_PERCENTILE || '95')
AnomalyWindowSize == 512
ThresholdPercentile == 95

Devices == {"dev1", "dev2"}

\* The point of the ingest test (22.5, 0.02, 45.0, 4.9).
WarmPoint == <<2250, 2, 4500, 490>>

HttpPayloads == {<<NormalPoint>>, <<NormalPoint, WarmPoint>>}
MqttPayloads == {NormalPoint, WarmPoint}

EngineTypes == {"median-deviation", "zscore"}

\* The engine windows move in lockstep, so one window of points stands for
\* the four windows of a DeviceStats.
StatsOf(window) == [m \in Metrics |-> Column(window, m)]
WindowOf(stats) ==
    [i \in 1..Len(stats[1]) |-> <<stats[1][i], stats[2][i], stats[3][i], stats[4][i]>>]

\* engine.scoreBatch(deviceId, points) of the engine createAnomalyEngine() made.
EngineScoreBatch(engineType, window, points) ==
    IF engineType = "zscore"
    THEN LET r == ZScoreBatch(StatsOf(window), points, AnomalyWindowSize, 0)
         IN  [window |-> WindowOf(r.stats), results |-> r.results]
    ELSE MDScoreBatch(window, points, AnomalyWindowSize, ThresholdPercentile)

\* The engine bridge.ts falls back to: const zScoreEngine = createAnomalyEngine().
FallbackEngineType(config) == config.engine

IdsOf(first, n) == [i \in 1..n |-> first + i]

\* results.filter(r => r.isAnomaly), as positions (1-based) in order.
RECURSIVE Flagged(_, _)
Flagged(results, i) ==
    IF i > Len(results) THEN <<>>
    ELSE (IF results[i].isAnomaly THEN <<i>> ELSE <<>>) \o Flagged(results, i + 1)

MetricEvents(dev, ids) ==
    [i \in 1..Len(ids) |-> [kind |-> "metric:new", dev |-> dev, metricId |-> ids[i]]]

\* payload.lat and payload.lng of an MQTT message in tenths of a degree,
\* each of which may be absent; HTTP bodies have neither.
NoLocation == [hasLat |-> FALSE, lat |-> 0, hasLng |-> FALSE, lng |-> 0]

Handler(edge, dev, pts, ids, pc) ==
    [edge |-> edge, dev |-> dev, pts |-> pts, ids |-> ids, pc |-> pc,
     batch |-> <<>>, scored |-> <<>>, anoms |-> <<>>, status |-> 0,
     loc |-> NoLocation]

PInit ==
    /\ cfg \in [engine : EngineTypes, pyml : BOOLEAN, autoDevice : BOOLEAN]
    /\ handlers = <<>>
    /\ nextId = 0
    /\ devices = {"dev1"}
    /\ metrics = {}
    /\ anomalies = <<>>
    /\ events = <<>>
    /\ deviceBuffers = [d \in Devices |-> <<>>]
    /\ httpEngine = [d \in Devices |-> <<>>]
    /\ mqttEngine = [d \in Devices |-> <<>>]
    /\ seen = [http |-> [d \in Devices |-> <<>>], mqtt |-> [d \in Devices |-> <<>>]]
    /\ scoredBy = <<>>
    /\ fallbacks = <<>>

PIdle ==
    /\ cfg = [engine |-> "zscore", pyml |-> FALSE, autoDevice |-> FALSE]
    /\ handlers = <<>>
    /\ nextId = 0
    /\ devices = {}
    /\ metrics = {}
    /\ anomalies = <<>>
    /\ events = <<>>
    /\ deviceBuffers = [d \in Devices |-> <<>>]
    /\ httpEngine = [d \in Devices |-> <<>>]
    /\ mqttEngine = [d \in Devices |-> <<>>]
    /\ seen = [http |-> [d \in Devices |-> <<>>], mqtt |-> [d \in Devices |-> <<>>]]
    /\ scoredBy = <<>>
    /\ fallbacks = <<>>

SetPc(h, pc) == [handlers EXCEPT ![h].pc = pc]
Finish(h, status) == [handlers EXCEPT ![h].pc = "done", ![h].status = status]

\* scoredBy with `who` recorded for every id of ids.
Scored(ids, who) ==
    [i \in 1..Len(scoredBy) |->
        IF \E k \in 1..Len(ids) : ids[k] = i THEN Append(scoredBy[i], who)
        ELSE scoredBy[i]]

(***************************************************************************)
(* POST /api/ingest                                                        *)
(***************************************************************************)

\* The request has passed the rate limiter, apiKeyAuth and IngestSchema.parse;
\* the handler awaits prisma.device.findUnique.
HttpArrive ==
    /\ Len(handlers) < MaxHandlers
    /\ \E d \in Devices, pts \in HttpPayloads :
         /\ handlers' = Append(handlers,
                Handler("http", d, pts, IdsOf(nextId, Len(pts)), "find"))
         /\ nextId' = nextId + Len(pts)
         /\ scoredBy' = scoredBy \o [i \in 1..Len(pts) |-> <<>>]
    /\ UNCHANGED <<cfg, devices, metrics, anomalies, events, deviceBuffers,
                   httpEngine, mqttEngine, seen, fallbacks>>

\* findUnique returns: the device is there (createManyAndReturn is issued),
\* or it is not: 404 unless ALLOW_AUTO_DEVICE, else device.create is issued.
HttpFindDone(h) ==
    /\ handlers[h].edge = "http" /\ handlers[h].pc = "find"
    /\ handlers' =
         IF handlers[h].dev \in devices THEN SetPc(h, "insert")
         ELSE IF ~cfg.autoDevice THEN Finish(h, 404)
         ELSE SetPc(h, "create")
    /\ UNCHANGED <<cfg, nextId, devices, metrics, anomalies, events, deviceBuffers,
                   httpEngine, mqttEngine, seen, scoredBy, fallbacks>>

\* device.create returns: the row is inserted unless the id exists by now
\* (unique constraint), in which case it throws and the request ends 500.
HttpCreateDone(h) ==
    /\ handlers[h].edge = "http" /\ handlers[h].pc = "create"
    /\ IF handlers[h].dev \in devices
       THEN /\ handlers' = Finish(h, 500)
            /\ UNCHANGED devices
       ELSE /\ handlers' = SetPc(h, "insert")
            /\ devices' = devices \union {handlers[h].dev}
    /\ UNCHANGED <<cfg, nextId, metrics, anomalies, events, deviceBuffers,
                   httpEngine, mqttEngine, seen, scoredBy, fallbacks>>

\* A row for every scoring result, anomalous or not.
HttpAnomalyRowsUnfiltered(dev, ids, results, engineType) ==
    [k \in 1..Len(results) |->
        [dev |-> dev, metricId |-> ids[results[k].pointIndex + 1],
         score |-> results[k].score, type |-> engineType]]

\* anomalyResults.filter(isAnomaly).map(...): the Anomaly rows to insert.
HttpAnomalyRows(dev, ids, results, engineType) ==
    LET f == Flagged(results, 1)
    IN  [k \in 1..Len(f) |->
            [dev |-> dev, metricId |-> ids[results[f[k]].pointIndex + 1],
             score |-> results[f[k]].score, type |-> engineType]]

AnomalyEvents(rows, firstId, withId) ==
    [k \in 1..Len(rows) |->
        [kind |-> "anomaly:new", dev |-> rows[k].dev,
         id |-> IF withId THEN firstId + k ELSE 0,
         metricId |-> rows[k].metricId, type |-> rows[k].type]]

\* The events of the handler's pending insert, emitted although it failed.
EmittedAlthoughFailed(h) ==
    IF handlers[h].pc = "anomaly"
    THEN AnomalyEvents(handlers[h].anoms, Len(anomalies), FALSE)
    ELSE MetricEvents(handlers[h].dev, handlers[h].ids)

\* A store call that throws skips the rest of the try block: the catch
\* blocks log (and answer 500) and emit nothing.
EmittedOnFailure(h) == <<>>

\* The windows had scoreBatch run ahead of the insert it follows.
WindowsScoredAhead(h) ==
    [httpEngine EXCEPT ![handlers[h].dev] =
        EngineScoreBatch(cfg.engine, @, handlers[h].pts).window]

\* anomalyEngine.scoreBatch comes after the awaited inserts in the try block:
\* a store call that throws leaves every detector window as it was.
WindowsOnFailure(h) == httpEngine

\* A store call of the request throws (connection lost, timeout): the catch
\* block answers 500.
HttpStoreFails(h) ==
    /\ handlers[h].edge = "http"
    /\ handlers[h].pc \in {"find", "create", "insert", "anomaly"}
    /\ handlers' = Finish(h, 500)
    /\ events' = events \o EmittedOnFailure(h)
    /\ httpEngine' = WindowsOnFailure(h)
    /\ UNCHANGED <<cfg, nextId, devices, metrics, anomalies, deviceBuffers,
                   mqttEngine, seen, scoredBy, fallbacks>>

\* metric.createManyAndReturn returns: the points are stored; scoreBatch runs;
\* with no anomalous point the events are emitted and 201 is sent, otherwise
\* anomaly.createManyAndReturn is issued.
HttpInsertDone(h) ==
    /\ handlers[h].edge = "http" /\ handlers[h].pc = "insert"
    /\ LET me   == handlers[h]
           r    == EngineScoreBatch(cfg.engine, httpEngine[me.dev], me.pts)
           rows == HttpAnomalyRows(me.dev, me.ids, r.results, cfg.engine)
       IN  /\ metrics' = metrics \union {me.ids[i] : i \in 1..Len(me.ids)}
           /\ httpEngine' = [httpEngine EXCEPT ![me.dev] = r.window]
           /\ seen' = [seen EXCEPT !.http[me.dev] = @ \o me.ids]
           /\ scoredBy' = Scored(me.ids, "local")
           /\ IF rows = <<>>
              THEN /\ events' = events \o MetricEvents(me.dev, me.ids)
                   /\ handlers' = Finish(h, 201)
              ELSE /\ events' = events
                   /\ handlers' = [handlers EXCEPT ![h].pc = "anomaly", ![h].anoms = rows]
    /\ UNCHANGED <<cfg, nextId, devices, anomalies, deviceBuffers, mqttEngine, fallbacks>>

\* anomaly.createManyAndReturn returns: metric:new for every point, then
\* anomaly:new for every inserted anomaly, then 201.
HttpAnomalyDone(h) ==
    /\ handlers[h].edge = "http" /\ handlers[h].pc = "anomaly"
    /\ LET me == handlers[h]
       IN  /\ anomalies' = anomalies \o me.anoms
           /\ events' = events \o MetricEvents(me.dev, me.ids)
                               \o AnomalyEvents(me.anoms, Len(anomalies), TRUE)
           /\ handlers' = Finish(h, 201)
    /\ UNCHANGED <<cfg, nextId, devices, metrics, deviceBuffers, httpEngine,
                   mqttEngine, seen, scoredBy, fallbacks>>

\* Any step of HTTP handler h.
HttpStep(h) ==
    \/ HttpStoreFails(h)
    \/ HttpFindDone(h)
    \/ HttpCreateDone(h)
    \/ HttpInsertDone(h)
    \/ HttpAnomalyDone(h)

(***************************************************************************)
(* MQTT bridge: handleMQTTMessage                                          *)
(***************************************************************************)

\* The message is on sensors/<deviceId>/metrics with a valid payload; the
\* handler awaits ensureDeviceExists (prisma.device.upsert).
MqttArriveOn(devs, max) ==
    /\ Len(handlers) < max
    /\ \E d \in devs, p \in MqttPayloads :
         /\ handlers' = Append(handlers,
                Handler("mqtt", d, <<p>>, IdsOf(nextId, 1), "upsert"))
         /\ nextId' = nextId + 1
         /\ scoredBy' = Append(scoredBy, <<>>)
    /\ UNCHANGED <<cfg, devices, metrics, anomalies, events, deviceBuffers,
                   httpEngine, mqttEngine, seen, fallbacks>>

MqttArrive == MqttArriveOn(Devices, MaxHandlers)

\* device.upsert returns: the device exists from now on; storeMetric is issued.
MqttUpsertDone(h) ==
    /\ handlers[h].edge = "mqtt" /\ handlers[h].pc = "upsert"
    /\ devices' = devices \union {handlers[h].dev}
    /\ handlers' = SetPc(h, "store")
    /\ UNCHANGED <<cfg, nextId, metrics, anomalies, events, deviceBuffers,
                   httpEngine, mqttEngine, seen, scoredBy, fallbacks>>

\* device.upsert throws: rethrown unless ALLOW_AUTO_DEVICE (the message is
\* dropped by the catch of handleMQTTMessage), else storeMetric is issued.
MqttUpsertFails(h) ==
    /\ handlers[h].edge = "mqtt" /\ handlers[h].pc = "upsert"
    /\ handlers' = IF cfg.autoDevice THEN SetPc(h, "store") ELSE Finish(h, 0)
    /\ UNCHANGED <<cfg, nextId, devices, metrics, anomalies, events, deviceBuffers,
                   httpEngine, mqttEngine, seen, scoredBy, fallbacks>>

\* metric.create or anomaly.createMany throws: caught and logged, the handler ends.
MqttStoreFails(h) ==
    /\ handlers[h].edge = "mqtt" /\ handlers[h].pc \in {"store", "anomaly"}
    /\ handlers' = Finish(h, 0)
    /\ events' = events \o EmittedOnFailure(h)
    /\ UNCHANGED <<cfg, nextId, devices, metrics, anomalies, deviceBuffers,
                   httpEngine, mqttEngine, seen, scoredBy, fallbacks>>

\* addToBatch: push, and shift when the buffer is longer than 2 * BATCH_SIZE.
AddToBatch(buffer, item) ==
    LET pushed == Append(buffer, item)
    IN  IF Len(pushed) > BATCH_SIZE * 2 THEN Tail(pushed) ELSE pushed

\* A batch taken only when the buffer holds more than BATCH_SIZE items.
BatchReadyAbove(buffer) == Len(buffer) > BATCH_SIZE

\* processBatchIfReady: buffer.length < BATCH_SIZE returns.
BatchReady(buffer) == Len(buffer) >= BATCH_SIZE

\* An extraction that copies the batch and leaves the buffer as it is.
BufferAfterSlice(buffer) == buffer

\* buffer.splice(0, BATCH_SIZE): the batch, and what stays in the buffer.
ExtractedBatch(buffer) == SubSeq(buffer, 1, BATCH_SIZE)
BufferAfterSplice(buffer) == SubSeq(buffer, BATCH_SIZE + 1, Len(buffer))

BatchIds(batch) == [i \in 1..Len(batch) |-> batch[i].id]
BatchPoints(batch) == [i \in 1..Len(batch) |-> batch[i].point]

\* What batch[index] gives for an index that is not in the batch.
Undefined == [id |-> 0, point |-> <<>>]

\* An index outside the batch taken modulo the batch length.
ItemAtWrapped(batch, index) == batch[(index % Len(batch)) + 1]

\* batch[s.index]
ItemAt(batch, index) ==
    IF index \in 0..(Len(batch) - 1) THEN batch[index + 1] ELSE Undefined

\* item.metric.id of an undefined item: a TypeError, thrown inside map().
MapThrows(batch, scoredPoints) ==
    \E k \in 1..Len(scoredPoints) :
        /\ scoredPoints[k].isAnomaly
        /\ ItemAt(batch, scoredPoints[k].pointIndex) = Undefined

\* storeAnomalies: scoredPoints.filter(isAnomaly).map(...), the rows to insert.
MqttAnomalyRows(dev, batch, scoredPoints, config) ==
    LET f == Flagged(scoredPoints, 1)
    IN  [k \in 1..Len(f) |->
            [dev |-> dev, metricId |-> ItemAt(batch, scoredPoints[f[k]].pointIndex).id,
             score |-> scoredPoints[f[k]].score,
             type |-> IF config.pyml THEN "isoforest" ELSE "zscore"]]

\* What the external scorer may answer for a batch: one entry per point, any flags.
ExternalAnswers(n) ==
    {[i \in 1..n |-> [pointIndex |-> i - 1, score |-> Frac(1, 1), isAnomaly |-> fl[i]]]
        : fl \in [1..n -> BOOLEAN]}

\* What the external scorer may send when nothing is assumed of it: up to n
\* entries, each with an index in or next to the batch and any flag.
WildAnswers(n) ==
    UNION {[1..len -> [pointIndex : -1..n, score : {Frac(1, 1)}, isAnomaly : BOOLEAN]]
              : len \in 0..n}

\* The end of processBatchIfReady, from the scored points on: nothing to
\* insert ends the handler, as does the TypeError of storeAnomalies (caught
\* and logged); otherwise anomaly.createMany is issued.
AfterScoring(h, batch, scoredPoints) ==
    LET rows == MqttAnomalyRows(handlers[h].dev, batch, scoredPoints, cfg)
    IN  IF MapThrows(batch, scoredPoints) THEN Finish(h, 0)
        ELSE IF rows = <<>> THEN Finish(h, 0)
        ELSE [handlers EXCEPT ![h].pc = "anomaly", ![h].anoms = rows,
                              ![h].batch = batch, ![h].scored = scoredPoints]

\* zScoreEngine.scoreBatch(deviceId, points) on the batch, by the bridge's engine.
LocalScoring(h, batch, afterFailure) ==
    LET dev == handlers[h].dev
        r   == EngineScoreBatch(FallbackEngineType(cfg), mqttEngine[dev], BatchPoints(batch))
    IN  /\ mqttEngine' = [mqttEngine EXCEPT ![dev] = r.window]
        /\ seen' = [seen EXCEPT !.mqtt[dev] = @ \o BatchIds(batch)]
        /\ scoredBy' = Scored(BatchIds(batch), "local")
        /\ handlers' = AfterScoring(h, batch, r.results)
        /\ fallbacks' =
             IF afterFailure
             THEN Append(fallbacks, [dev |-> dev, points |-> BatchPoints(batch),
                                     before |-> mqttEngine[dev], results |-> r.results])
             ELSE fallbacks

\* metric.create returns (the device must exist: foreign key): the point is
\* stored, added to the buffer and published; a full batch is extracted and
\* either sent to the external scorer or scored by the bridge's engine.
MqttStoreDone(h) ==
    /\ handlers[h].edge = "mqtt" /\ handlers[h].pc = "store"
    /\ handlers[h].dev \in devices
    /\ LET me     == handlers[h]
           item   == [id |-> me.ids[1], point |-> me.pts[1]]
           buffer == AddToBatch(deviceBuffers[me.dev], item)
           batch  == ExtractedBatch(buffer)
       IN  /\ metrics' = metrics \union {me.ids[1]}
           /\ events' = events \o MetricEvents(me.dev, me.ids)
           /\ IF ~BatchReady(buffer)
              THEN /\ deviceBuffers' = [deviceBuffers EXCEPT ![me.dev] = buffer]
                   /\ handlers' = Finish(h, 0)
                   /\ UNCHANGED <<mqttEngine, seen, scoredBy, fallbacks>>
              ELSE /\ deviceBuffers' = [deviceBuffers EXCEPT ![me.dev] = BufferAfterSplice(buffer)]
                   /\ IF cfg.pyml
                      THEN /\ handlers' = [handlers EXCEPT ![h].pc = "external",
                                                           ![h].batch = batch]
                           /\ UNCHANGED <<mqttEngine, seen, scoredBy, fallbacks>>
                      ELSE LocalScoring(h, batch, FALSE)
    /\ UNCHANGED <<cfg, nextId, devices, anomalies, httpEngine>>

\* The score-batch call returns 2xx: its scores are used.
MqttExternalAnswers(h, answers) ==
    /\ handlers[h].edge = "mqtt" /\ handlers[h].pc = "external"
    /\ \E scoredPoints \in answers :
         /\ handlers' = AfterScoring(h, handlers[h].batch, scoredPoints)
         /\ scoredBy' = Scored(BatchIds(handlers[h].batch), "external")
    /\ UNCHANGED <<cfg, nextId, devices, metrics, anomalies, events, deviceBuffers,
                   httpEngine, mqttEngine, seen, fallbacks>>

MqttExternalDone(h) == MqttExternalAnswers(h, ExternalAnswers(Len(handlers[h].batch)))

\* The score-batch call fails (timeout, non-2xx, transport error): the catch
\* block scores the batch with the bridge's engine.
MqttExternalFails(h) ==
    /\ handlers[h].edge = "mqtt" /\ handlers[h].pc = "external"
    /\ LocalScoring(h, handlers[h].batch, TRUE)
    /\ UNCHANGED <<cfg, nextId, devices, metrics, anomalies, events, deviceBuffers,
                   httpEngine>>

\* anomaly.createMany returns: the rows are stored (no ids come back) and
\* anomaly:new is emitted for each.
MqttAnomalyDone(h) ==
    /\ handlers[h].edge = "mqtt" /\ handlers[h].pc = "anomaly"
    /\ anomalies' = anomalies \o handlers[h].anoms
    /\ events' = events \o AnomalyEvents(handlers[h].anoms, Len(anomalies), FALSE)
    /\ handlers' = Finish(h, 0)
    /\ UNCHANGED <<cfg, nextId, devices, metrics, deviceBuffers, httpEngine,
                   mqttEngine, seen, scoredBy, fallbacks>>

\* Any step of MQTT handler h.
MqttStep(h) ==
    \/ MqttUpsertDone(h)
    \/ MqttUpsertFails(h)
    \/ MqttStoreFails(h)
    \/ MqttStoreDone(h)
    \/ MqttExternalDone(h)
    \/ MqttExternalFails(h)
    \/ MqttAnomalyDone(h)

\* A handler that would start only after the handlers before it have ended.
WaitsForEarlier(h) == \E g \in 1..(h - 1) : handlers[g].pc # "done"

\* mqttClient.on('message', async ...) and router.post('/', async ...): the
\* emitter and express call the listener for every message and request and
\* do not await the promise it returns, so no handler waits for another.
Waits(h) == FALSE

(***************************************************************************)
(* The middleware in front of POST /api/ingest                             *)
(***************************************************************************)
VARIABLES
    ingestKey,  \* process.env.INGEST_API_KEY ("unset" when not configured)
    hits,       \* the rate limiter's store: client -> requests in this window
    replies     \* the statuses answered before the handler reached the store

gvars == <<ingestKey, hits, replies>>

\* Bounds of the middleware machine.
MaxGateHandlers == 2
MaxReplies      == 3

\* max of ingestLimiter, scaled down.
RateMax == 2

Clients == {"ip1", "ip2"}

\* The X-API-Key header of a request: absent, the configured key, another.
KeyHeaders == {"absent", "secret", "wrong"}

\* Request bodies: a deviceId (or none) and a metrics array (maybe empty).
Bodies == [deviceId : Devices \union {"missing"}, metrics : HttpPayloads \union {<<>>}]

GInit ==
    /\ ingestKey \in {"unset", "secret"}
    /\ hits = [c \in Clients |-> 0]
    /\ replies = <<>>

GIdle ==
    /\ ingestKey = "unset"
    /\ hits = [c \in Clients |-> 0]
    /\ replies = <<>>

\* ingestLimiter: the request that takes the client's count above max is
\* answered 429.
RateLimited(c) == hits[c] + 1 > RateMax

\* apiKeyAuth: no configured key lets everything through; otherwise the
\* header must be there and equal the key.
ApiKeyAccepted(key) ==
    \/ ingestKey = "unset"
    \/ key # "absent" /\ key = ingestKey

\* IngestSchema.parse: deviceId: z.string(), metrics: z.array(MetricSchema).min(1).
SchemaValid(body) == body.deviceId # "missing" /\ Len(body.metrics) >= 1

\* The status the request is answered with before it reaches the store, or
\* 0 when it goes on to prisma.device.findUnique.
GateStatus(c, key, body) ==
    IF RateLimited(c) THEN 429
    ELSE IF ~ApiKeyAccepted(key) THEN 401
    ELSE IF ~SchemaValid(body) THEN 400
    ELSE 0

\* The rejecting middleware calls next() all the same.
AfterRejectCallsNext(body) ==
    Append(handlers, Handler("http", "dev1", <<NormalPoint>>, IdsOf(nextId, 1), "insert"))

\* A rejected request returns without calling next(): no handler runs.
AfterReject(body) == handlers

\* A POST /api/ingest request from client c.
GateRequest ==
    /\ Len(handlers) < MaxGateHandlers
    /\ Len(replies) < MaxReplies
    /\ \E c \in Clients, key \in KeyHeaders, body \in Bodies :
         LET status == GateStatus(c, key, body)
         IN  /\ hits' = [hits EXCEPT ![c] = @ + 1]
             /\ IF status # 0
                THEN /\ replies' = Append(replies, status)
                     /\ handlers' = AfterReject(body)
                     /\ UNCHANGED <<nextId, scoredBy>>
                ELSE /\ handlers' = Append(handlers,
                            Handler("http", body.deviceId, body.metrics,
                                    IdsOf(nextId, Len(body.metrics)), "find"))
                     /\ nextId' = nextId + Len(body.metrics)
                     /\ scoredBy' = scoredBy \o [i \in 1..Len(body.metrics) |-> <<>>]
                     /\ replies' = replies
    /\ UNCHANGED <<cfg, devices, metrics, anomalies, events, deviceBuffers,
                   httpEngine, mqttEngine, seen, fallbacks, ingestKey>>

\* windowMs has passed: the limiter's counts start again.
RateWindowExpires ==
    /\ \E c \in Clients : hits[c] > 0
    /\ hits' = [c \in Clients |-> 0]
    /\ UNCHANGED <<pvars, ingestKey, replies>>

(***************************************************************************)
(* Socket.IO sessions                                                      *)
(***************************************************************************)
VARIABLES
    connected,  \* the sockets that are connected
    rooms,      \* socket -> the devices whose room device:<id> it has joined
    sent,       \* socket -> the packets the server has emitted to it, in order
    taken,      \* socket -> how many of them the client has read (-1: not connected yet)
    published   \* the number of emit calls so far

svars == <<connected, rooms, sent, taken, published>>

\* Bound of the session machine: emit calls.
MaxPublished == 2

\* Socket ids; each is one connection, never reused after it has closed.
Sessions == {"s1", "s2"}
EventKinds == {"metric:new", "anomaly:new", "device:update"}

SInit ==
    /\ connected = {}
    /\ rooms = [s \in Sessions |-> {}]
    /\ sent = [s \in Sessions |-> <<>>]
    /\ taken = [s \in Sessions |-> -1]
    /\ published = 0

\* io.on('connection'): a new socket, in no device room.
Connect(s) ==
    /\ s \notin connected
    /\ taken[s] = -1
    /\ connected' = connected \union {s}
    /\ taken' = [taken EXCEPT ![s] = 0]
    /\ UNCHANGED <<rooms, sent, published>>

\* socket.on('subscribe:device'): socket.join(`device:${deviceId}`).
SubscribeDevice(s, d) ==
    /\ s \in connected
    /\ rooms' = [rooms EXCEPT ![s] = @ \union {d}]
    /\ UNCHANGED <<connected, sent, taken, published>>

\* socket.on('unsubscribe:device'): socket.leave(`device:${deviceId}`).
UnsubscribeDevice(s, d) ==
    /\ s \in connected
    /\ rooms' = [rooms EXCEPT ![s] = @ \ {d}]
    /\ UNCHANGED <<connected, sent, taken, published>>

\* socket.on('disconnect'): the socket is gone, and with it its rooms.
Disconnect(s) ==
    /\ s \in connected
    /\ connected' = connected \ {s}
    /\ rooms' = [rooms EXCEPT ![s] = {}]
    /\ UNCHANGED <<sent, taken, published>>

\* One packet as socket s gets it: whether s was in the device's room when
\* it was emitted is kept with it.
Packet(s, kind, d, via) ==
    [kind |-> kind, dev |-> d, via |-> via, subscribed |-> d \in rooms[s],
     seq |-> published + 1]

\* io.to(`device:${deviceId}`).emit(...): to the sockets in the room.
ToRoom(s, kind, d) ==
    IF s \in connected /\ d \in rooms[s] THEN <<Packet(s, kind, d, "room")>> ELSE <<>>

\* io.emit(...): to every connected socket.
ToAll(s, kind, d) ==
    IF s \in connected THEN <<Packet(s, kind, d, "all")>> ELSE <<>>

\* emitMetricNew / emitAnomalyNew / emitDeviceUpdate of the realtime module:
\* to the device room, then to everyone.
EmitRealtime(kind, d) ==
    /\ published < MaxPublished
    /\ sent' = [s \in Sessions |-> sent[s] \o ToRoom(s, kind, d) \o ToAll(s, kind, d)]
    /\ published' = published + 1
    /\ UNCHANGED <<connected, rooms, taken>>

\* emitMetricUpdate / emitAnomalyUpdate of the bridge: socketIO.emit(...).
EmitBridge(kind, d) ==
    /\ published < MaxPublished
    /\ kind \in {"metric:new", "anomaly:new"}
    /\ sent' = [s \in Sessions |-> sent[s] \o ToAll(s, kind, d)]
    /\ published' = published + 1
    /\ UNCHANGED <<connected, rooms, taken>>

\* The client of socket s reads the next packet.
ClientReads(s) ==
    /\ s \in connected
    /\ taken[s] < Len(sent[s])
    /\ taken' = [taken EXCEPT ![s] = @ + 1]
    /\ UNCHANGED <<connected, rooms, sent, published>>

\* The packets emitted to s that its client has not read yet.
Pending(s) == IF taken[s] < 0 THEN <<>> ELSE SubSeq(sent[s], taken[s] + 1, Len(sent[s]))

(***************************************************************************)
(* Device location on the MQTT edge                                        *)
(***************************************************************************)
VARIABLES
    deviceLocation  \* Device.location of every device row ("null" when none)

lvars == <<deviceLocation>>

\* Bound of the location machine: messages.
MaxLocMessages == 2

LInit == deviceLocation = [d \in Devices |-> "null"]

Locations ==
    {NoLocation,
     [hasLat |-> TRUE, lat |-> 373, hasLng |-> TRUE, lng |-> -1219],
     [hasLat |-> TRUE, lat |-> 0, hasLng |-> TRUE, lng |-> 0],
     [hasLat |-> TRUE, lat |-> 370, hasLng |-> FALSE, lng |-> 0]}

\* `${x}` of a number given in tenths: sign, integer digits, and the
\* decimal only when it is not zero (37.3 -> "37.3", 37.0 -> "37").
NumberToString(x) ==
    [minus |-> x < 0, int |-> Abs(x) \div 10,
     point |-> Abs(x) % 10 # 0, frac |-> Abs(x) % 10]

\* `lat:${lat},lng:${lng}`
LocationString(lat, lng) ==
    <<"lat:", NumberToString(lat), ",lng:", NumberToString(lng)>>

\* lat !== undefined && lng !== undefined
HasLocation(loc) == loc.hasLat /\ loc.hasLng

\* prisma.device.upsert: update sets location only when both are given;
\* create sets it, or null.
LocationAfterUpsert(h) ==
    IF HasLocation(handlers[h].loc)
    THEN [deviceLocation EXCEPT ![handlers[h].dev] =
              LocationString(handlers[h].loc.lat, handlers[h].loc.lng)]
    ELSE deviceLocation

\* A message on sensors/<deviceId>/metrics, with or without lat and lng.
LocArrive ==
    /\ Len(handlers) < MaxLocMessages
    /\ \E d \in Devices, p \in MqttPayloads, l \in Locations :
         /\ handlers' = Append(handlers,
                [Handler("mqtt", d, <<p>>, IdsOf(nextId, 1), "upsert") EXCEPT !.loc = l])
         /\ nextId' = nextId + 1
         /\ scoredBy' = Append(scoredBy, <<>>)
    /\ UNCHANGED <<cfg, devices, metrics, anomalies, events, deviceBuffers,
                   httpEngine, mqttEngine, seen, fallbacks, deviceLocation>>

\* device.upsert returns: the row exists, with the location of the message.
LocUpsertDone(h) ==
    /\ MqttUpsertDone(h)
    /\ deviceLocation' = LocationAfterUpsert(h)

(***************************************************************************)
(* Shutdown: process.on('SIGTERM' / 'SIGINT') of index.ts                  *)
(***************************************************************************)
VARIABLES
    proc,             \* where the process is: running, in the signal handler, exited
    prismaConnected,  \* index.ts prisma (the client the bridge stores with) is connected
    httpListening,    \* httpServer accepts new connections
    mqttSubscribed    \* mqttClient is connected and subscribed to sensors/+/metrics

tvars == <<proc, prismaConnected, httpListening, mqttSubscribed>>

\* Bound of the shutdown machine: requests and messages.
MaxShutdownHandlers == 2

\* After startServer: database connected, server listening, bridge subscribed.
TInit ==
    /\ proc = "running"
    /\ prismaConnected = TRUE
    /\ httpListening = TRUE
    /\ mqttSubscribed = TRUE

\* An HTTP request whose response has not been sent.
HttpInFlight(h) == handlers[h].edge = "http" /\ handlers[h].pc # "done"

\* SIGTERM or SIGINT is delivered: the handler logs and awaits prisma.$disconnect().
ShutdownSignal ==
    /\ proc = "running"
    /\ proc' = "disconnecting"
    /\ UNCHANGED <<prismaConnected, httpListening, mqttSubscribed>>

\* $disconnect() resolves: the client is closed and httpServer.close(cb) is
\* called, which stops the server from accepting new connections.
\* shutdownMQTTBridge is not called: the subscription stays.
DisconnectDone ==
    /\ proc = "disconnecting"
    /\ prismaConnected' = FALSE
    /\ httpListening' = FALSE
    /\ proc' = "closing"
    /\ UNCHANGED mqttSubscribed

\* The close callback runs once the open connections have ended: process.exit(0).
ServerClosed ==
    /\ proc = "closing"
    /\ \A h \in 1..Len(handlers) : ~HttpInFlight(h)
    /\ proc' = "exited"
    /\ UNCHANGED <<prismaConnected, httpListening, mqttSubscribed>>

\* The process runs handler code only until it has exited.
Alive == proc # "exited"

\* The variables added to the detectors and the pipeline.
avars == <<gvars, svars, lvars, tvars>>
AIdle == GIdle /\ SInit /\ LInit /\ TInit

vars == <<zvars, mdvars, pvars, avars>>

ZNext == ZScoreBatchCall /\ UNCHANGED <<mdvars, pvars, avars>>
ZSpecInit == ZInit /\ MDIdle /\ PIdle /\ AIdle
ZSpec == ZSpecInit /\ [][ZNext]_vars

MDNext == MDScoreBatchCall /\ UNCHANGED <<zvars, pvars, avars>>
MDSpecInit == MDInit /\ ZIdle /\ PIdle /\ AIdle
MDSpec == MDSpecInit /\ [][MDNext]_vars

\* The whole pipeline: both edges, two devices.
Init == PInit /\ ZIdle /\ MDIdle /\ AIdle
Next ==
    \/ HttpArrive /\ UNCHANGED <<zvars, mdvars, avars>>
    \/ MqttArrive /\ UNCHANGED <<zvars, mdvars, avars>>
    \/ \E h \in 1..Len(handlers) : HttpFindDone(h) /\ UNCHANGED <<zvars, mdvars, avars>>
    \/ \E h \in 1..Len(handlers) : HttpCreateDone(h) /\ UNCHANGED <<zvars, mdvars, avars>>
    \/ \E h \in 1..Len(handlers) : HttpInsertDone(h) /\ UNCHANGED <<zvars, mdvars, avars>>
    \/ \E h \in 1..Len(handlers) : HttpAnomalyDone(h) /\ UNCHANGED <<zvars, mdvars, avars>>
    \/ \E h \in 1..Len(handlers) : HttpStoreFails(h) /\ UNCHANGED <<zvars, mdvars, avars>>
    \/ \E h \in 1..Len(handlers) : MqttUpsertDone(h) /\ UNCHANGED <<zvars, mdvars, avars>>
    \/ \E h \in 1..Len(handlers) : MqttUpsertFails(h) /\ UNCHANGED <<zvars, mdvars, avars>>
    \/ \E h \in 1..Len(handlers) : MqttStoreDone(h) /\ UNCHANGED <<zvars, mdvars, avars>>
    \/ \E h \in 1..Len(handlers) : MqttStoreFails(h) /\ UNCHANGED <<zvars, mdvars, avars>>
    \/ \E h \in 1..Len(handlers) : MqttExternalDone(h) /\ UNCHANGED <<zvars, mdvars, avars>>
    \/ \E h \in 1..Len(handlers) : MqttExternalFails(h) /\ UNCHANGED <<zvars, mdvars, avars>>
    \/ \E h \in 1..Len(handlers) : MqttAnomalyDone(h) /\ UNCHANGED <<zvars, mdvars, avars>>
Spec == Init /\ [][Next]_vars

\* The MQTT bridge alone, one device, a longer run of messages.
MaxMessages == 4
BridgeNextOn(max) ==
    \/ MqttArriveOn({"dev1"}, max) /\ UNCHANGED <<zvars, mdvars, avars>>
    \/ \E h \in 1..Len(handlers) : MqttUpsertDone(h) /\ UNCHANGED <<zvars, mdvars, avars>>
    \/ \E h \in 1..Len(handlers) : MqttUpsertFails(h) /\ UNCHANGED <<zvars, mdvars, avars>>
    \/ \E h \in 1..Len(handlers) : MqttStoreDone(h) /\ UNCHANGED <<zvars, mdvars, avars>>
    \/ \E h \in 1..Len(handlers) : MqttStoreFails(h) /\ UNCHANGED <<zvars, mdvars, avars>>
    \/ \E h \in 1..Len(handlers) : MqttExternalDone(h) /\ UNCHANGED <<zvars, mdvars, avars>>
    \/ \E h \in 1..Len(handlers) : MqttExternalFails(h) /\ UNCHANGED <<zvars, mdvars, avars>>
    \/ \E h \in 1..Len(handlers) : MqttAnomalyDone(h) /\ UNCHANGED <<zvars, mdvars, avars>>
BridgeNext == BridgeNextOn(MaxMessages)
BridgeSpec == Init /\ [][BridgeNext]_vars

\* A device that sends at most one batch and then stays quiet.  Every awaited
\* call settles (the store answers or throws, the external scorer answers or
\* its 5 s timeout aborts the request), so a handler that has started runs
\* to its end.  Nothing makes a device send.
MaxQuietMessages == 2
QuietNext == BridgeNextOn(MaxQuietMessages)
HandlersFinish ==
    \A h \in 1..MaxQuietMessages :
        WF_vars(h <= Len(handlers) /\ MqttStep(h) /\ UNCHANGED <<zvars, mdvars, avars>>)
QuietFairSpec == Init /\ [][QuietNext]_vars /\ HandlersFinish

\* POST /api/ingest behind its middleware.
GateInit == PInit /\ ZIdle /\ MDIdle /\ GInit /\ SInit /\ LInit /\ TInit
GateNext ==
    \/ GateRequest /\ UNCHANGED <<zvars, mdvars, svars, lvars, tvars>>
    \/ RateWindowExpires /\ UNCHANGED <<zvars, mdvars, svars, lvars, tvars>>
    \/ \E h \in 1..Len(handlers) : HttpFindDone(h) /\ UNCHANGED <<zvars, mdvars, avars>>
    \/ \E h \in 1..Len(handlers) : HttpCreateDone(h) /\ UNCHANGED <<zvars, mdvars, avars>>
    \/ \E h \in 1..Len(handlers) : HttpInsertDone(h) /\ UNCHANGED <<zvars, mdvars, avars>>
    \/ \E h \in 1..Len(handlers) : HttpAnomalyDone(h) /\ UNCHANGED <<zvars, mdvars, avars>>
    \/ \E h \in 1..Len(handlers) : HttpStoreFails(h) /\ UNCHANGED <<zvars, mdvars, avars>>
GateSpec == GateInit /\ [][GateNext]_vars

\* The sessions and the emit functions alone.
SocketInit == PIdle /\ ZIdle /\ MDIdle /\ GIdle /\ SInit /\ LInit /\ TInit
SocketNext ==
    \/ \E s \in Sessions : Connect(s) /\ UNCHANGED <<zvars, mdvars, pvars, gvars, lvars, tvars>>
    \/ \E s \in Sessions, d \in Devices :
         SubscribeDevice(s, d) /\ UNCHANGED <<zvars, mdvars, pvars, gvars, lvars, tvars>>
    \/ \E s \in Sessions, d \in Devices :
         UnsubscribeDevice(s, d) /\ UNCHANGED <<zvars, mdvars, pvars, gvars, lvars, tvars>>
    \/ \E s \in Sessions : Disconnect(s) /\ UNCHANGED <<zvars, mdvars, pvars, gvars, lvars, tvars>>
    \/ \E kind \in EventKinds, d \in Devices :
         EmitRealtime(kind, d) /\ UNCHANGED <<zvars, mdvars, pvars, gvars, lvars, tvars>>
    \/ \E kind \in EventKinds, d \in Devices :
         EmitBridge(kind, d) /\ UNCHANGED <<zvars, mdvars, pvars, gvars, lvars, tvars>>
    \/ \E s \in Sessions : ClientReads(s) /\ UNCHANGED <<zvars, mdvars, pvars, gvars, lvars, tvars>>
SocketSpec == SocketInit /\ [][SocketNext]_vars

\* The MQTT bridge with the location of the messages.
LocNext ==
    \/ LocArrive /\ UNCHANGED <<zvars, mdvars, gvars, svars, tvars>>
    \/ \E h \in 1..Len(handlers) : LocUpsertDone(h) /\ UNCHANGED <<zvars, mdvars, gvars, svars, tvars>>
    \/ \E h \in 1..Len(handlers) : MqttUpsertFails(h) /\ UNCHANGED <<zvars, mdvars, avars>>
    \/ \E h \in 1..Len(handlers) : MqttStoreDone(h) /\ UNCHANGED <<zvars, mdvars, avars>>
    \/ \E h \in 1..Len(handlers) : MqttStoreFails(h) /\ UNCHANGED <<zvars, mdvars, avars>>
    \/ \E h \in 1..Len(handlers) : MqttExternalDone(h) /\ UNCHANGED <<zvars, mdvars, avars>>
    \/ \E h \in 1..Len(handlers) : MqttExternalFails(h) /\ UNCHANGED <<zvars, mdvars, avars>>
    \/ \E h \in 1..Len(handlers) : MqttAnomalyDone(h) /\ UNCHANGED <<zvars, mdvars, avars>>
LocSpec == Init /\ [][LocNext]_vars

\* Both edges with the shutdown handler: requests are accepted while the
\* server listens, messages are delivered while the bridge is subscribed,
\* and handlers run until the process exits.
ShutdownNext ==
    \/ ShutdownSignal /\ UNCHANGED <<zvars, mdvars, pvars, gvars, svars, lvars>>
    \/ DisconnectDone /\ UNCHANGED <<zvars, mdvars, pvars, gvars, svars, lvars>>
    \/ ServerClosed /\ UNCHANGED <<zvars, mdvars, pvars, gvars, svars, lvars>>
    \/ Alive /\ httpListening /\ Len(handlers) < MaxShutdownHandlers
         /\ HttpArrive /\ UNCHANGED <<zvars, mdvars, avars>>
    \/ Alive /\ mqttSubscribed
         /\ MqttArriveOn(Devices, MaxShutdownHandlers) /\ UNCHANGED <<zvars, mdvars, avars>>
    \/ \E h \in 1..Len(handlers) : Alive /\ HttpFindDone(h) /\ UNCHANGED <<zvars, mdvars, avars>>
    \/ \E h \in 1..Len(handlers) : Alive /\ HttpCreateDone(h) /\ UNCHANGED <<zvars, mdvars, avars>>
    \/ \E h \in 1..Len(handlers) : Alive /\ HttpInsertDone(h) /\ UNCHANGED <<zvars, mdvars, avars>>
    \/ \E h \in 1..Len(handlers) : Alive /\ HttpAnomalyDone(h) /\ UNCHANGED <<zvars, mdvars, avars>>
    \/ \E h \in 1..Len(handlers) : Alive /\ HttpStoreFails(h) /\ UNCHANGED <<zvars, mdvars, avars>>
    \/ \E h \in 1..Len(handlers) : Alive /\ MqttStep(h) /\ UNCHANGED <<zvars, mdvars, avars>>
ShutdownSpec == Init /\ [][ShutdownNext]_vars

\* Both edges where the store may leave a call of one device unanswered
\* for ever: every awaited call of the other devices settles, those of
\* StuckDevice need not.
StuckDevice == "dev2"
MaxStuckHandlers == 3
\* The request or message whose call may stay unanswered comes first, the
\* points of the other devices arrive meanwhile.
Arriving == IF handlers = <<>> THEN {StuckDevice} ELSE Devices \ {StuckDevice}
StuckNext ==
    \/ /\ Len(handlers) < MaxStuckHandlers
       /\ HttpArrive
       /\ handlers'[Len(handlers')].dev \in Arriving
       /\ UNCHANGED <<zvars, mdvars, avars>>
    \/ MqttArriveOn(Arriving, MaxStuckHandlers) /\ UNCHANGED <<zvars, mdvars, avars>>
    \/ \E h \in 1..Len(handlers) :
         ~Waits(h) /\ HttpStep(h) /\ UNCHANGED <<zvars, mdvars, avars>>
    \/ \E h \in 1..Len(handlers) :
         ~Waits(h) /\ MqttStep(h) /\ UNCHANGED <<zvars, mdvars, avars>>
OthersSettle ==
    \A h \in 1..MaxStuckHandlers :
        WF_vars(/\ h <= Len(handlers)
                /\ handlers[h].dev # StuckDevice
                /\ ~Waits(h)
                /\ (HttpStep(h) \/ MqttStep(h))
                /\ UNCHANGED <<zvars, mdvars, avars>>)
StuckFairSpec == Init /\ [][StuckNext]_vars /\ OthersSettle

\* The two detectors side by side: one engine object of each, scoreBatch
\* calls on either, with batches of up to MaxWindowBatch points.
MaxWindowCalls == 3
MaxWindowBatch == 2
WindowZBatches ==
    {Mixed(k, p, q) : k \in 1..MaxWindowBatch,
                      p \in {NormalPoint, SpikePoint}, q \in {NormalPoint, SpikePoint}}
WindowMDBatches ==
    {Mixed(k, p, q) : k \in 0..MaxWindowBatch,
                      p \in {NormalPoint, NormalPointB},
                      q \in {NormalPoint, AnomalousPoint}}
WindowInit == ZInit /\ MDInit /\ PIdle /\ AIdle
WindowNext ==
    \/ /\ Len(zLog) + Len(mdLog) < MaxWindowCalls
       /\ ZScoreBatchOn(WindowZBatches)
       /\ UNCHANGED <<mdvars, pvars, avars>>
    \/ /\ Len(zLog) + Len(mdLog) < MaxWindowCalls
       /\ MDScoreBatchOn(WindowMDBatches)
       /\ UNCHANGED <<zvars, pvars, avars>>
WindowSpec == WindowInit /\ [][WindowNext]_vars

\* Both edges, where the external scorer may answer anything.
MaxIndexHandlers == 2
IndexNext ==
    \/ Len(handlers) < MaxIndexHandlers /\ HttpArrive /\ UNCHANGED <<zvars, mdvars, avars>>
    \/ MqttArriveOn({"dev1"}, MaxIndexHandlers) /\ UNCHANGED <<zvars, mdvars, avars>>
    \/ \E h \in 1..Len(handlers) : HttpStep(h) /\ UNCHANGED <<zvars, mdvars, avars>>
    \/ \E h \in 1..Len(handlers) : MqttUpsertDone(h) /\ UNCHANGED <<zvars, mdvars, avars>>
    \/ \E h \in 1..Len(handlers) : MqttUpsertFails(h) /\ UNCHANGED <<zvars, mdvars, avars>>
    \/ \E h \in 1..Len(handlers) : MqttStoreDone(h) /\ UNCHANGED <<zvars, mdvars, avars>>
    \/ \E h \in 1..Len(handlers) : MqttStoreFails(h) /\ UNCHANGED <<zvars, mdvars, avars>>
    \/ \E h \in 1..Len(handlers) :
         /\ MqttExternalAnswers(h, WildAnswers(Len(handlers[h].batch)))
         /\ UNCHANGED <<zvars, mdvars, avars>>
    \/ \E h \in 1..Len(handlers) : MqttExternalFails(h) /\ UNCHANGED <<zvars, mdvars, avars>>
    \/ \E h \in 1..Len(handlers) : MqttAnomalyDone(h) /\ UNCHANGED <<zvars, mdvars, avars>>
IndexSpec == Init /\ [][IndexNext]_vars

(***************************************************************************)
(* Claims about the detectors                                              *)
(***************************************************************************)

\* All points of the calls 1..i of zLog that are for device d.
RECURSIVE ZSubmitted(_, _)
ZSubmitted(i, d) ==
    IF i = 0 THEN {}
    ELSE ZSubmitted(i - 1, d) \union
         (IF zLog[i].dev = d THEN {zLog[i].points[k] : k \in 1..Len(zLog[i].points)}
          ELSE {})

RECURSIVE ZSubmittedCount(_, _)
ZSubmittedCount(i, d) ==
    IF i = 0 THEN 0
    ELSE ZSubmittedCount(i - 1, d) + (IF zLog[i].dev = d THEN Len(zLog[i].points) ELSE 0)

\* C6: ZScoreEngine(10, 3.0), as the test sets it up: after a scoreBatch of
\* ten identical points for a device, the next call for that device, a
\* single point whose temperature_c alone differs (35.0 against 22.0),
\* returns exactly one result, with isAnomaly = true and score > 3.0.
C6_SpikeAfterTrainingIsAnomaly ==
    \A i \in 2..Len(zLog) :
        ( /\ zWindowSize = TestWindow
          /\ zLog[i - 1].dev = zLog[i].dev
          /\ zLog[i - 1].points = Copies(TestTrain, NormalPoint)
          /\ zLog[i].points = <<SpikePoint>> )
        => /\ Len(zLog[i].results) = 1
           /\ zLog[i].results[1].isAnomaly
           /\ zLog[i].results[1].score.num
                > ZThreshold * ZThreshold * zLog[i].results[1].score.den

\* C7: if every point submitted so far for a device is the same point, every
\* result of every call for that device has isAnomaly = false and score 0,
\* whatever the batch split and the window size.
C7_ConstantStreamNeverAnomalous ==
    \A i \in 1..Len(zLog) :
        Cardinality(ZSubmitted(i, zLog[i].dev)) = 1
        => \A k \in 1..Len(zLog[i].results) :
              /\ ~zLog[i].results[k].isAnomaly
              /\ zLog[i].results[k].score.num = 0

\* A constant stream that has overflowed the window, over three calls.
C7_Witness ==
    /\ Len(zLog) = 3
    /\ \A i \in 1..3 : zLog[i].dev = zLog[1].dev
    /\ Cardinality(ZSubmitted(3, zLog[1].dev)) = 1
    /\ ZSubmittedCount(3, zLog[1].dev) > zWindowSize
    /\ zWindowSize > 1

MDNominal(points) ==
    \A k \in 1..Len(points) : points[k] \in {NormalPoint, NormalPointB}

\* C8: MedianDeviationEngine(20, 95), as the test sets it up: after a first
\* batch of 15 nominal points for a device (0 anomalies), a single-point
\* batch whose four metrics are all far outside the nominal range returns
\* one result with isAnomaly = true and score > 0.
C8_OutlierAfterNominalIsAnomaly ==
    \A i \in 2..Len(mdLog) :
        ( /\ mdWindowSize = MDTestWindow
          /\ mdPercentile = MDTestPercentile
          /\ mdLog[i - 1].dev = mdLog[i].dev
          /\ mdLog[i - 1].before = <<>>
          /\ Len(mdLog[i - 1].points) = MDTestTrain
          /\ MDNominal(mdLog[i - 1].points)
          /\ \A k \in 1..MDTestTrain : ~mdLog[i - 1].results[k].isAnomaly
          /\ mdLog[i].points = <<AnomalousPoint>> )
        => /\ Len(mdLog[i].results) = 1
           /\ mdLog[i].results[1].isAnomaly
           /\ mdLog[i].results[1].score.num > 0

\* C9: the median-deviation detector returns no result for an empty batch,
\* and score 0, isAnomaly = false for every point of a batch when the
\* device's window holds fewer than 2 points after the batch is appended
\* (the window was empty and the batch has one point, or windowSize < 2).
C9_FewerThanTwoPointsScoreZero ==
    \A i \in 1..Len(mdLog) :
        /\ Len(mdLog[i].results) = Len(mdLog[i].points)
        /\ (mdWindowSize < 2 \/ Len(mdLog[i].before) + Len(mdLog[i].points) < 2)
           => \A k \in 1..Len(mdLog[i].results) :
                 /\ mdLog[i].results[k].score.num = 0
                 /\ ~mdLog[i].results[k].isAnomaly

\* A batch of 15 differing points scored by an engine whose window holds one
\* point, after an empty batch.
C9_Witness ==
    /\ Len(mdLog) = 2
    /\ mdWindowSize = 1
    /\ mdLog[1].points = <<>>
    /\ mdLog[1].results = <<>>
    /\ mdLog[2].dev = mdLog[1].dev
    /\ mdLog[2].points = Mixed(MDTestTrain, NormalPoint, AnomalousPoint)

(***************************************************************************)
(* Claims about the pipeline                                               *)
(***************************************************************************)

\* Point ids are handed out on arrival: a smaller id was accepted earlier.
HandlerOf(id) ==
    CHOOSE h \in 1..Len(handlers) : \E k \in 1..Len(handlers[h].ids) : handlers[h].ids[k] = id
EdgeOf(id) == handlers[HandlerOf(id)].edge
PointIds == 1..nextId
Increasing(ids) == \A i, j \in 1..Len(ids) : i < j => ids[i] < ids[j]

\* C1: the metric:new events of one device's points that came through one
\* edge are emitted in the order in which the points were accepted, also
\* when the handlers overlap.
C1_MetricEventsInAcceptanceOrder ==
    \A i, j \in 1..Len(events) :
        (/\ i < j
         /\ events[i].kind = "metric:new" /\ events[j].kind = "metric:new"
         /\ events[i].dev = events[j].dev
         /\ EdgeOf(events[i].metricId) = EdgeOf(events[j].metricId))
        => events[i].metricId < events[j].metricId

\* C2: for every device the points reach the detector window, and the MQTT
\* buffer that feeds it, in the order in which they were accepted.
C2_DetectorSeesAcceptanceOrder ==
    \A d \in Devices :
        /\ Increasing(seen.http[d])
        /\ Increasing(seen.mqtt[d])
        /\ Increasing(BatchIds(deviceBuffers[d]))

\* C3: no point is scored more than once (not in two batches, not by both
\* the external scorer and the bridge's engine), only persisted points are
\* scored, and a persisted HTTP point is scored exactly once.
C3_ScoredAtMostOnce ==
    \A id \in PointIds :
        /\ Len(scoredBy[id]) <= 1
        /\ scoredBy[id] # <<>> => id \in metrics
        /\ (id \in metrics /\ EdgeOf(id) = "http") => Len(scoredBy[id]) = 1

\* A batch scored by the bridge's engine after the external call failed, a
\* batch scored by the external scorer or a third MQTT point left over, and
\* a scored HTTP point.
C3_Witness ==
    /\ \E id \in PointIds : EdgeOf(id) = "mqtt" /\ scoredBy[id] = <<"local">>
    /\ \E id \in PointIds : EdgeOf(id) = "http" /\ scoredBy[id] = <<"local">>
    /\ fallbacks # <<>>

\* C4: every point persisted through the MQTT edge is eventually scored,
\* also when the device sends nothing more (a partly filled buffer is
\* flushed by a time trigger).
Persisted(id) == id <= nextId /\ id \in metrics
WasScored(id) == id <= nextId /\ scoredBy[id] # <<>>
C4_PersistedIsEventuallyScored ==
    \A id \in 1..MaxQuietMessages : [](Persisted(id) => <>WasScored(id))

\* C5: a metric:new event is emitted only for a point whose insert has been
\* acknowledged, and an anomaly:new event only for an anomaly whose insert
\* has returned; what failed to be inserted is never published.
AnomalyStored(e) ==
    \E k \in 1..Len(anomalies) :
        /\ anomalies[k].metricId = e.metricId
        /\ anomalies[k].dev = e.dev
        /\ anomalies[k].type = e.type
        /\ e.id # 0 => e.id = k
C5_PublishedOnlyAfterStored ==
    \A i \in 1..Len(events) :
        /\ events[i].kind = "metric:new" => events[i].metricId \in metrics
        /\ events[i].kind = "anomaly:new" => AnomalyStored(events[i])

\* An anomaly has been published, and a handler ended on a failed insert.
C5_Witness ==
    /\ \E i \in 1..Len(events) : events[i].kind = "anomaly:new"
    /\ \E h \in 1..Len(handlers) :
         /\ handlers[h].pc = "done"
         /\ handlers[h].dev \in devices
         /\ handlers[h].ids[1] \notin metrics

\* C10: when the external call fails every time, the anomalies of each batch
\* are those the z-score detector gives for the same batches.
ZScoreRun(window, points) ==
    ZScoreBatch(StatsOf(window), points, AnomalyWindowSize, 0).results
C10_FallbackIsZScore ==
    (cfg.pyml /\ \A id \in PointIds : scoredBy[id] # <<"external">>) =>
        \A k \in 1..Len(fallbacks) :
            Flagged(fallbacks[k].results, 1)
                = Flagged(ZScoreRun(fallbacks[k].before, fallbacks[k].points), 1)

\* The tag of the detector that computed the score of point id: the external
\* scorer's, the z-score fallback's after a failed external call, or else
\* getType() of the engine createAnomalyEngine() made.
UsedDetectorTag(id) ==
    IF scoredBy[id] = <<"external">> THEN "isoforest"
    ELSE IF EdgeOf(id) = "mqtt" /\ cfg.pyml THEN "zscore"
    ELSE cfg.engine

\* C11: every Anomaly record and every anomaly:new event carries the tag of
\* the detector that computed its score; anomalies of a batch scored by the
\* fallback after an external failure carry "zscore".
C11_TypeIsDetectorUsed ==
    /\ \A k \in 1..Len(anomalies) :
         anomalies[k].type = UsedDetectorTag(anomalies[k].metricId)
    /\ \A i \in 1..Len(events) :
         events[i].kind = "anomaly:new" =>
             events[i].type = UsedDetectorTag(events[i].metricId)

\* C12: every anomaly:new event carries the id of its Anomaly record as the
\* store persisted it, never a placeholder.
C12_EventCarriesPersistedId ==
    \A i \in 1..Len(events) :
        events[i].kind = "anomaly:new" =>
            /\ events[i].id \in 1..Len(anomalies)
            /\ anomalies[events[i].id].metricId = events[i].metricId

\* The devices PInit puts in the store; the others are unknown.
KnownDevices == {"dev1"}
DeviceOf(id) == handlers[HandlerOf(id)].dev

\* C13: with auto-provisioning off, a point for a device that is not in the
\* store is rejected on both edges (HTTP: 404), and no Device is created, no
\* Point persisted, nothing scored and nothing published for it.
C13_UnknownDeviceRejected ==
    ~cfg.autoDevice =>
        /\ devices = KnownDevices
        /\ \A id \in PointIds :
             DeviceOf(id) \notin KnownDevices => id \notin metrics /\ scoredBy[id] = <<>>
        /\ \A i \in 1..Len(events) : events[i].dev \in KnownDevices
        /\ \A h \in 1..Len(handlers) :
             (/\ handlers[h].edge = "http" /\ handlers[h].pc = "done"
              /\ handlers[h].dev \notin KnownDevices)
             => handlers[h].status \in {404, 500}

\* C14: with auto-provisioning on, a first-contact ingest never fails because
\* another handler created the device in between: a request whose
\* device.create is in flight while the device is already stored is still
\* not answered 500.
C14_FirstContactNeverFailsOnRace ==
    [][cfg.autoDevice =>
        \A h \in 1..Len(handlers) :
            (handlers[h].pc = "create" /\ handlers[h].dev \in devices)
                => handlers'[h].status # 500]_vars

\* C15: when the insert of the points of an HTTP batch fails, the request is
\* answered 5xx, the detector is not called (the windows are unchanged), no
\* Anomaly record is created and no event is emitted.
C15_FailedInsertLeavesNoTrace ==
    [][\A h \in 1..Len(handlers) :
        (/\ handlers[h].edge = "http" /\ handlers[h].pc = "insert"
         /\ handlers'[h].pc = "done"
         /\ handlers[h].ids[1] \notin metrics')
        => /\ handlers'[h].status >= 500
           /\ httpEngine' = httpEngine /\ mqttEngine' = mqttEngine
           /\ seen' = seen /\ scoredBy' = scoredBy
           /\ metrics' = metrics /\ anomalies' = anomalies
           /\ events' = events]_vars

\* The only request of a new device created the device (so its findUnique
\* and create succeeded) and ended 500 with none of its points stored: its
\* insert failed.  Nothing was scored or published for it.
C15_Witness ==
    \E h \in 1..Len(handlers) :
        /\ handlers[h].edge = "http" /\ handlers[h].pc = "done"
        /\ handlers[h].status = 500
        /\ handlers[h].dev \in devices \ KnownDevices
        /\ \A g \in 1..Len(handlers) : g # h => handlers[g].dev # handlers[h].dev
        /\ handlers[h].ids[1] \notin metrics
        /\ httpEngine[handlers[h].dev] = <<>>
        /\ \A i \in 1..Len(events) : events[i].metricId # handlers[h].ids[1]

\* The fields of the 201 response of handler h: insertedMetrics.length and
\* insertedAnomalies.length.
MetricsInserted(h) ==
    Cardinality({k \in 1..Len(handlers[h].ids) : handlers[h].ids[k] \in metrics})
AnomaliesDetected(h) ==
    Cardinality({k \in 1..Len(handlers[h].anoms) :
        \E a \in 1..Len(anomalies) : anomalies[a] = handlers[h].anoms[k]})
EventsOf(h, kind) ==
    {i \in 1..Len(events) :
        /\ events[i].kind = kind
        /\ \E k \in 1..Len(handlers[h].ids) : handlers[h].ids[k] = events[i].metricId}

\* A request answered 201 has all its points and anomaly rows committed, and
\* its counts are those of its points and of its anomaly:new events.
Answered201(h) ==
    handlers[h].edge = "http" /\ handlers[h].pc = "done" /\ handlers[h].status = 201
CommittedBefore201 ==
    \A h \in 1..Len(handlers) :
        Answered201(h) =>
            /\ MetricsInserted(h) = Len(handlers[h].pts)
            /\ AnomaliesDetected(h) = Len(handlers[h].anoms)
            /\ Cardinality(EventsOf(h, "metric:new")) = Len(handlers[h].pts)
            /\ Cardinality(EventsOf(h, "anomaly:new")) = AnomaliesDetected(h)

\* The rows a request goes on to insert are as many as the points that the
\* scoring of the request flags.
RowsAreTheFlaggedPoints ==
    \A h \in 1..Len(handlers) :
        (/\ handlers[h].edge = "http" /\ handlers[h].pc = "insert"
         /\ handlers'[h].pc \in {"anomaly", "done"}
         /\ handlers[h].ids[1] \in metrics')
        => Len(handlers'[h].anoms) =
             Len(Flagged(EngineScoreBatch(cfg.engine, httpEngine[handlers[h].dev],
                                          handlers[h].pts).results, 1))

\* C16: 201 is answered only after all points of the request and the Anomaly
\* records of its anomalous points are committed; metricsInserted is the
\* number of points, anomaliesDetected the number of points scored
\* anomalous, which is the number of anomaly:new events of the request.
C16_CreatedAfterCommitWithCounts ==
    []CommittedBefore201 /\ [][RowsAreTheFlaggedPoints]_vars

\* A request with an anomalous point has been answered 201.
C16_Witness ==
    \E h \in 1..Len(handlers) :
        /\ Answered201(h)
        /\ Len(handlers[h].pts) = 2
        /\ AnomaliesDetected(h) = 1

\* The store, the detector windows and the event stream.
Footprint ==
    <<devices, metrics, anomalies, events, deviceBuffers, httpEngine, mqttEngine,
      seen, scoredBy>>

\* Handler h is answered 404 in this step.
Answers404(h) ==
    /\ handlers[h].pc # "done"
    /\ handlers'[h].pc = "done" /\ handlers'[h].status = 404

\* A step that answers 400, 401 or 429 starts no handler and touches
\* nothing; a step that answers 404 touches nothing either.
RejectionTouchesNothing ==
    /\ replies' # replies =>
         /\ replies'[Len(replies')] \in {400, 401, 429}
         /\ handlers' = handlers
         /\ Footprint' = Footprint
    /\ \A h \in 1..Len(handlers) : Answers404(h) => Footprint' = Footprint

\* Nothing is ever stored, scored or published for the points of a request
\* that was answered 404.
Rejected404LeavesNothing ==
    \A h \in 1..Len(handlers) :
        (handlers[h].pc = "done" /\ handlers[h].status = 404) =>
            /\ handlers[h].dev \notin devices
            /\ \A k \in 1..Len(handlers[h].ids) :
                 /\ handlers[h].ids[k] \notin metrics
                 /\ scoredBy[handlers[h].ids[k]] = <<>>
            /\ EventsOf(h, "metric:new") = {} /\ EventsOf(h, "anomaly:new") = {}

\* C17: a POST /api/ingest request answered 4xx (400, 401, 404, 429) leaves
\* the store, every detector window and the event stream unchanged.
C17_RejectedRequestChangesNothing ==
    []Rejected404LeavesNothing /\ [][RejectionTouchesNothing]_vars

\* Requests have been answered 400, 401 and 429, and one 404.
C17_Witness ==
    /\ \A st \in {400, 401, 429} : \E i \in 1..Len(replies) : replies[i] = st
    /\ \E h \in 1..Len(handlers) : handlers[h].pc = "done" /\ handlers[h].status = 404

\* C18: a session gets an event of device D only if it is subscribed to D
\* when the event is emitted; a connected session with no subscription gets
\* no device event.
C18_OnlySubscribedSessionsReceive ==
    \A s \in Sessions : \A i \in 1..Len(sent[s]) : sent[s][i].subscribed

\* The bound the queue of a subscriber is to keep (1024 by default).
QueueBound == 2

\* C19: the events queued for a subscriber never exceed the bound, also
\* when the subscriber does not read (the oldest is dropped then).
C19_QueueNeverExceedsBound ==
    \A s \in Sessions : Len(Pending(s)) <= QueueBound

\* The device:update events that carry location loc for device d.
DeviceUpdates(d, loc) ==
    {i \in 1..Len(events) :
        /\ events[i].kind = "device:update"
        /\ events[i].dev = d
        /\ events[i].location = loc}

\* C20: for every MQTT message that carries both lat and lng and has been
\* handled, its device has been stored with location "lat:<lat>,lng:<lng>"
\* and a device:update event with that location has been emitted.
C20_LocationStoredAndAnnounced ==
    \A h \in 1..Len(handlers) :
        (/\ handlers[h].edge = "mqtt" /\ handlers[h].pc = "done"
         /\ HasLocation(handlers[h].loc)
         /\ handlers[h].ids[1] \in metrics)
        => LET loc == LocationString(handlers[h].loc.lat, handlers[h].loc.lng)
           IN  /\ \E g \in 1..Len(handlers) :
                    /\ handlers[g].dev = handlers[h].dev
                    /\ HasLocation(handlers[g].loc)
                    /\ deviceLocation[handlers[h].dev] =
                         LocationString(handlers[g].loc.lat, handlers[g].loc.lng)
               /\ DeviceUpdates(handlers[h].dev, loc) # {}

\* A request or message whose handler has not run to its end.
InProgress(h) == handlers[h].pc # "done"

\* C21: persistence is closed only after the MQTT subscription is drained,
\* the server has stopped accepting requests, every per-device buffer has
\* been flushed and no request or batch is in progress.
C21_PersistenceClosedLast ==
    ~prismaConnected =>
        /\ ~mqttSubscribed
        /\ ~httpListening
        /\ \A d \in Devices : deviceBuffers[d] = <<>>
        /\ \A h \in 1..Len(handlers) : ~InProgress(h)

\* Handler h is awaiting a persistence call.
Persisting(h) == handlers[h].pc \in {"find", "create", "insert", "upsert", "store", "anomaly"}

\* Handler h has run to its end.
Ended(h) == h <= Len(handlers) /\ handlers[h].pc = "done"

\* C22: whatever the handlers of one device do, including never returning
\* from a persistence call, every request and message of another device that
\* has arrived is handled to its end.
C22_OtherDevicesProgress ==
    \A h \in 1..MaxStuckHandlers :
        (h <= Len(handlers) /\ handlers[h].dev # StuckDevice) ~> Ended(h)

\* A request or message of the stuck device is still in its persistence call
\* while a point of another device that arrived later is stored and published.
C22_Witness ==
    \E g, h \in 1..Len(handlers) :
        /\ g < h
        /\ handlers[g].dev = StuckDevice /\ Persisting(g)
        /\ handlers[h].dev # StuckDevice /\ Ended(h)
        /\ \A i \in 1..Len(handlers[h].ids) :
             /\ handlers[h].ids[i] \in metrics
             /\ \E e \in 1..Len(events) :
                  events[e].kind = "metric:new" /\ events[e].metricId = handlers[h].ids[i]

(***************************************************************************)
(* Claims about the detector windows                                       *)
(***************************************************************************)

\* The points of the calls 1..i of a log that are for device d, in
\* submission order.
RECURSIVE Stream(_, _, _)
Stream(log, i, d) ==
    IF i = 0 THEN <<>>
    ELSE Stream(log, i - 1, d) \o (IF log[i].dev = d THEN log[i].points ELSE <<>>)

\* The last n entries of s (all of s when it has no more than n).
LastN(s, n) == IF Len(s) > n THEN SubSeq(s, Len(s) - n + 1, Len(s)) ELSE s

\* C23: after every scoreBatch call of either detector, for every device,
\* each window holds at most windowSize entries and equals the last
\* min(windowSize, total) points submitted for the device, in order.
C23_WindowIsLastSubmitted ==
    \A d \in EngineDevices :
        /\ \A m \in Metrics :
             /\ Len(zStats[d][m]) <= zWindowSize
             /\ zStats[d][m] = Column(LastN(Stream(zLog, Len(zLog), d), zWindowSize), m)
        /\ Len(mdRecent[d]) <= mdWindowSize
        /\ mdRecent[d] = LastN(Stream(mdLog, Len(mdLog), d), mdWindowSize)

\* Both engines have dropped points of a device whose stream is not
\* constant.
C23_Witness ==
    /\ \E d \in EngineDevices :
         /\ Len(Stream(zLog, Len(zLog), d)) > zWindowSize
         /\ Cardinality(ZSubmitted(Len(zLog), d)) = 2
    /\ \E d \in EngineDevices :
         LET st == Stream(mdLog, Len(mdLog), d)
         IN  /\ Len(st) > mdWindowSize
             /\ st[1] # st[Len(st)]

\* The device's window after call i of mdLog has appended its batch.
MDWindowAfter(i) == MDAppend(mdLog[i].before, mdLog[i].points, mdWindowSize)

\* C24: the score reported for each new point is its deviation among the
\* scores of the device's whole window (after the batch is appended), and
\* isAnomaly says whether that window score is beyond the window's
\* percentile threshold.
C24_ScoredAgainstWindow ==
    \A i \in 1..Len(mdLog) :
        LET w   == MDWindowAfter(i)
            all == ModelScore(w)
            th  == MDThreshold(all, mdPercentile)
            n   == Len(mdLog[i].points)
        IN  Len(w) >= 2 =>
              \A k \in 1..n :
                  LET pos == Len(w) - n + k
                  IN  pos >= 1 =>
                        /\ mdLog[i].results[k].score
                             = Frac(Abs(all[pos].num), all[pos].den)
                        /\ mdLog[i].results[k].isAnomaly = FracLess(all[pos], th)

\* C25: the MAD that normalises a feature is never below 1.0, for the window
\* the threshold is taken from and for the batch that is scored.
C25_MadNeverBelowOne ==
    \A i \in 1..Len(mdLog) :
        Len(MDWindowAfter(i)) >= 2 =>
          \A m \in Metrics :
              /\ MadOf(Column(MDWindowAfter(i), m)) >= One
              /\ mdLog[i].points # <<>> => MadOf(Column(mdLog[i].points, m)) >= One

\* A scoreBatch call leaves the windows of every device but its own as
\* they were.
CallTouchesOwnDeviceOnly ==
    /\ zLog' # zLog =>
         \A d \in EngineDevices \ {zLog'[Len(zLog')].dev} : zStats'[d] = zStats[d]
    /\ mdLog' # mdLog =>
         \A d \in EngineDevices \ {mdLog'[Len(mdLog')].dev} : mdRecent'[d] = mdRecent[d]

\* The results of every call are those of an engine that has seen the
\* earlier calls of the same device only.
ResultsFromOwnStream ==
    /\ \A i \in 1..Len(zLog) :
         zLog[i].results =
           ZScoreBatch(StatsOf(LastN(Stream(zLog, i - 1, zLog[i].dev), zWindowSize)),
                       zLog[i].points, zWindowSize, 0).results
    /\ \A i \in 1..Len(mdLog) :
         mdLog[i].results =
           MDScoreBatch(LastN(Stream(mdLog, i - 1, mdLog[i].dev), mdWindowSize),
                        mdLog[i].points, mdWindowSize, mdPercentile).results

\* C26: detector state is per device: a scoreBatch call for one device
\* leaves the windows of every other device unchanged, and the results for a
\* device are the same whatever calls for other devices come in between.
C26_DevicesAreIndependent ==
    []ResultsFromOwnStream /\ [][CallTouchesOwnDeviceOnly]_vars

\* A call for another device, with other points, between two calls of a
\* device whose second call scores against its window.
C26_Witness ==
    /\ Len(zLog) = 3
    /\ zLog[1].dev = zLog[3].dev /\ zLog[2].dev # zLog[1].dev
    /\ zLog[1].points # zLog[2].points
    /\ \E k \in 1..Len(zLog[3].results) : zLog[3].results[k].score.num # 0

(***************************************************************************)
(* Claims about the pipeline, continued                                    *)
(***************************************************************************)

\* The ids of the points handler h scored as one batch.
BatchOf(h) ==
    IF handlers[h].edge = "http" THEN handlers[h].ids ELSE BatchIds(handlers[h].batch)

\* The Anomaly rows handler h has built reference points of its own batch:
\* on the MQTT edge the point at the position the flagged result names.
RowsReferenceOwnBatch(h) ==
    LET me == handlers[h]
        f  == Flagged(me.scored, 1)
    IN  /\ \A k \in 1..Len(me.anoms) :
             /\ me.anoms[k].dev = me.dev
             /\ \E i \in 1..Len(BatchOf(h)) : BatchOf(h)[i] = me.anoms[k].metricId
             /\ me.anoms[k].metricId \in metrics
             /\ DeviceOf(me.anoms[k].metricId) = me.dev
        /\ (me.edge = "mqtt" /\ me.anoms # <<>>) =>
             /\ Len(me.anoms) = Len(f)
             /\ \A k \in 1..Len(f) :
                  /\ me.scored[f[k]].pointIndex \in 0..(Len(me.batch) - 1)
                  /\ me.anoms[k].metricId = me.batch[me.scored[f[k]].pointIndex + 1].id

C28_EachEventAtMostOnce ==
    \A s \in Sessions :
        \A i, j \in 1..Len(sent[s]) :
            i < j => sent[s][i].seq # sent[s][j].seq

(***************************************************************************)
(* Claims about the bridge buffers                                         *)
(***************************************************************************)

\* The ids held in buffer.
BufferedIds(buffer) == {buffer[i].id : i \in 1..Len(buffer)}

\* Between handler runs every buffer holds fewer than BATCH_SIZE items.
BuffersBelowBatch == \A d \in Devices : Len(deviceBuffers[d]) < BATCH_SIZE

\* A point leaves a buffer only as part of an extracted batch: it is scored
\* in the same run or is in the batch sent to the external scorer.
LeavesBufferOnlyInBatch ==
    \A d \in Devices :
        \A id \in BufferedIds(deviceBuffers[d]) \ BufferedIds(deviceBuffers'[d]) :
            \/ scoredBy'[id] # <<>>
            \/ \E h \in 1..Len(handlers') :
                 /\ handlers'[h].pc = "external"
                 /\ id \in BufferedIds(handlers'[h].batch)

\* C29: between handler runs every per-device buffer holds fewer than
\* BATCH_SIZE items, so addToBatch never drops an item, and no persisted
\* point leaves a buffer without being scored, for every interleaving.
C29_BufferNeverOverflows ==
    []BuffersBelowBatch /\ [][LeavesBufferOnlyInBatch]_vars

\* A device with a batch extracted and scored and a later point waiting in
\* its buffer.
C29_Witness ==
    \E d \in Devices :
        /\ Len(deviceBuffers[d]) = BATCH_SIZE - 1
        /\ Len(seen.mqtt[d]) = BATCH_SIZE
        /\ \A i \in 1..Len(deviceBuffers[d]) :
             \A k \in 1..Len(seen.mqtt[d]) : deviceBuffers[d][i].id > seen.mqtt[d][k]

\* C30: when POST /api/ingest has answered 5xx, none of the request's
\* points is persisted and none has entered the device's detector window.
C30_ServerErrorLeavesNoPoint ==
    \A h \in 1..Len(handlers) :
        (handlers[h].edge = "http" /\ handlers[h].pc = "done" /\ handlers[h].status >= 500)
        => \A i \in 1..Len(handlers[h].ids) :
              /\ handlers[h].ids[i] \notin metrics
              /\ \A k \in 1..Len(seen.http[handlers[h].dev]) :
                    seen.http[handlers[h].dev][k] # handlers[h].ids[i]

====
